---- MODULE Spec2Model ----
(***************************************************************************)
(* Model of train() in v1/train_single_multiple.py: the epoch loop, the    *)
(* validation pass, the best-model bookkeeping, the three rolling          *)
(* checkpoint files and the final renames, with the training windows, the  *)
(* learning-rate schedulers and the metrics sink.                          *)
(*                                                                         *)
(* Accuracies are kept as exact fractions <<numerator, denominator>>; the  *)
(* code's float comparison of two quotients is modelled by the comparison  *)
(* of the fractions.  Losses are fractions, nan or inf.  The loss of a     *)
(* batch comes from the criterion of loss.py and is taken to be the number *)
(* of wrong examples of the batch.  Parameters and optimizer moments are   *)
(* counted by the optimizer steps that produced them, a learning rate by   *)
(* the number of times it was halved.  Outputs of the age head are         *)
(* integers.                                                               *)
(***************************************************************************)
EXTENDS Integers, Sequences, FiniteSets, TLC

\* ---- bounds of the model ----
MaxEpochs == 2
TrainSetSize == 1
MaxValSize == 2
MaxBatchSize == 2
\* the validation-pass specification: few epochs, a larger validation split
MaxValEpochs == 1
MaxSplitSize == 3
\* the training-pass specification: more batches, log windows, decay steps
MaxTrainEpochs == 2
WideTrainSetSize == 4
MaxLogInterval == 2
MaxDecayStep == 2
\* the age-rule specification: outputs from -MaxAgeOutput to MaxAgeOutput
MaxAgeOutput == 101

VARIABLES
    epochs,            \* args.epochs
    len_train_set,     \* len(train_set)
    batch_size,        \* args.batch_size
    len_val_set,       \* len(val_set)
    valid_batch_size,  \* args.valid_batch_size
    log_interval,      \* args.log_interval
    lr_decay_step,     \* args.lr_decay_step
    config_writes,     \* number of times config.json was written
    params_age,        \* version of model_age's parameters (number of updates)
    params_mask_gender,
    opt_age,           \* optimizer_age: number of step() calls, learning rate
    opt_mask_gender,
    sched_age,         \* scheduler_age.last_epoch
    sched_mask_gender,
    loss_val_age,      \* window accumulators of the training loop
    loss_val_mask_gender,
    matches,
    win,               \* the batches of the running group of log_interval batches
    emitted,           \* window log event written by the last training step
    sink,              \* keys (name, step) of the scalars written to the logger
    val_loss_items_age,
    val_loss_items_mask_gender,
    val_loss,
    best_val_loss,
    item,              \* one element of outs_age
    age_label,         \* its decoded age band
    age_value,         \* value_mapping[age_label]
    train_pred_age,    \* its entry of preds_age in the training loop
    val_pred_age,      \* its entry of preds_age in the validation loop
    rule_pc,           \* position of the age decision on that element
    pc,                \* position of train() in its body
    raised,            \* exception that left train(), "none" while running
    epoch,             \* loop variable of the epoch loop
    idx,               \* number of training batches processed in this epoch
    preds,             \* per validation example: is the age / mask-gender prediction right
    vidx,              \* number of validation batches processed in this epoch
    val_acc_items,     \* list of per-batch joint-correct counts
    val_acc_items_age, \* list of per-batch age-correct counts
    val_acc,           \* joint validation accuracy of this epoch
    val_acc_age,       \* age-only validation accuracy of this epoch
    val_hist,          \* per finished validation pass: its val_acc and val_acc_age
    best_val_acc,
    best_epoch,
    best_val_age_acc,
    best_epoch_age,
    disk,              \* rolling files best.pth, best_age.pth, last.pth
    renamed            \* files under their final *_epochNNN.pth names

vars == <<epochs, len_train_set, batch_size, len_val_set, valid_batch_size,
          log_interval, lr_decay_step, config_writes,
          params_age, params_mask_gender, opt_age, opt_mask_gender,
          sched_age, sched_mask_gender,
          loss_val_age, loss_val_mask_gender, matches, win, emitted, sink,
          val_loss_items_age, val_loss_items_mask_gender, val_loss, best_val_loss,
          item, age_label, age_value, train_pred_age, val_pred_age, rule_pc,
          pc, raised, epoch, idx, preds, vidx, val_acc_items,
          val_acc_items_age, val_acc, val_acc_age, val_hist, best_val_acc,
          best_epoch, best_val_age_acc, best_epoch_age, disk, renamed>>

config == <<epochs, len_train_set, batch_size, len_val_set, valid_batch_size,
            log_interval, lr_decay_step>>
heads == <<params_age, params_mask_gender, opt_age, opt_mask_gender>>
scheds == <<sched_age, sched_mask_gender>>
window == <<loss_val_age, loss_val_mask_gender, matches>>
lossitems == <<val_loss_items_age, val_loss_items_mask_gender>>
losses == <<val_loss, best_val_loss>>
agerule == <<item, age_label, age_value, train_pred_age, val_pred_age, rule_pc>>
valpass == <<preds, vidx, val_acc_items, val_acc_items_age>>
trackers == <<best_val_acc, best_epoch, best_val_age_acc, best_epoch_age>>

Rolling == {"best", "best_age", "last"}
NoFile == [kind |-> "absent"]
Corrupt == [kind |-> "corrupt"]
NoPreds == <<>>

\* ---- pure helpers ----
Frac(n, d) == <<n, d>>

FracGT(a, b) == a[1] * b[2] > b[1] * a[2]

RECURSIVE SeqSum(_)
SeqSum(s) == IF s = <<>> THEN 0 ELSE Head(s) + SeqSum(Tail(s))

\* DataLoader(..., drop_last=True): number of batches per pass
LenTrainLoader == len_train_set \div batch_size
LenValLoader == len_val_set \div valid_batch_size

\* examples of validation batch number b (0-based); shuffle=False
ValBatch(b) == (b * valid_batch_size + 1) .. ((b + 1) * valid_batch_size)

Outcome == [age : BOOLEAN, mg : BOOLEAN]

\* f"{n:03d}"
Fmt03(n) ==
    IF n >= 0
    THEN <<(n \div 100) % 10, (n \div 10) % 10, n % 10>>
    ELSE <<"-", ((0 - n) \div 10) % 10, (0 - n) % 10>>

\* losses: a fraction, nan or inf
Num(f) == [k |-> "num", v |-> f]
NaN == [k |-> "nan"]
Inf == [k |-> "inf"]

\* np.sum(items) / n
Mean(items, n) == IF n = 0 THEN NaN ELSE Num(Frac(SeqSum(items), n))

LossAdd(a, b) ==
    IF a.k = "nan" \/ b.k = "nan" THEN NaN
    ELSE IF a.k = "inf" \/ b.k = "inf" THEN Inf
    ELSE Num(Frac(a.v[1] * b.v[2] + b.v[1] * a.v[2], a.v[2] * b.v[2]))

\* a < b on floats
LossLT(a, b) ==
    /\ a.k = "num"
    /\ b.k # "nan"
    /\ b.k = "inf" \/ a.v[1] * b.v[2] < b.v[1] * a.v[2]

\* variant: max in place of min
PyMax(a, b) == IF LossLT(a, b) THEN b ELSE a

\* min(a, b) of Python: b when b < a, else a
PyMin(a, b) == IF LossLT(b, a) THEN b ELSE a

\* the loss functions of create_criterion, on the outcomes o of one batch
CriterionAge(o) == Cardinality({i \in DOMAIN o : ~o[i].age})
CriterionMaskGender(o) == Cardinality({i \in DOMAIN o : ~o[i].mg})

\* variant: the age comparison left out of the joint count
JointCountMaskGenderOnly(o) == Cardinality({i \in DOMAIN o : o[i].mg})

\* (age_value==preds_age) & (mask_gender_label==preds_mask_gender), summed
JointCount(o) == Cardinality({i \in DOMAIN o : o[i].age /\ o[i].mg})

\* (age_value==preds_age), summed
AgeCount(o) == Cardinality({i \in DOMAIN o : o[i].age})

\* (preds_age == age_value) & (preds_mask_gender == mask_gender_label), summed
TrainMatches(o) == Cardinality({i \in DOMAIN o : o[i].age /\ o[i].mg})

\* variant: the batch index alone as the step key
TrainStepIdxOnly == idx

\* epoch * len(train_loader) + idx
TrainStep == epoch * LenTrainLoader + idx

\* StepLR(step_size=args.lr_decay_step, gamma=0.5): the number of halvings of
\* the learning rate after the step that made last_epoch what it is
StepLR(lr, last_epoch) == IF last_epoch % lr_decay_step = 0 THEN lr + 1 ELSE lr

\* variant: the middle value 60
value_mapping_60 == [b \in 0..2 |-> IF b = 0 THEN 0 ELSE IF b = 1 THEN 60 ELSE 100]

value_mapping == [b \in 0..2 |-> IF b = 0 THEN 0 ELSE IF b = 1 THEN 45 ELSE 100]

\* the decision on one element of outs_age in the training loop
TrainAgeRule(x) == IF x < 30 THEN 0 ELSE IF x < 60 THEN 45 ELSE 100

\* variant: "<=" at the upper threshold
ValAgeRuleInclusive(x) == IF x < 30 THEN 0 ELSE IF x <= 60 THEN 45 ELSE 100

\* the decision on one element of outs_age in the validation loop
ValAgeRule(x) == IF x < 30 THEN 0 ELSE IF x < 60 THEN 45 ELSE 100

\* variant: ">=" in place of ">"
ExceedsBestOrTies(acc, best) == ~FracGT(best, acc)

ExceedsBest(acc, best) == FracGT(acc, best)

\* variant: ">=" in place of ">"
ExceedsBestAgeOrTies(acc, best) == ~FracGT(best, acc)

ExceedsBestAge(acc, best) == FracGT(acc, best)

\* the four state_dict() entries of a checkpoint
StateDicts ==
    [model_mask_gender |-> params_mask_gender,
     optimizer_mask_gender |-> opt_mask_gender,
     model_age |-> params_age,
     optimizer_age |-> opt_age]

Checkpoint(e, acc) ==
    [kind |-> "ckpt", epoch |-> e, accuracy |-> acc, state |-> StateDicts]

BestRecord == Checkpoint(epoch, val_acc)

\* variant: the age accuracy stored in the "best_age" file
BestAgeRecordAgeAcc == Checkpoint(epoch, val_acc_age)

BestAgeRecord == Checkpoint(epoch, val_acc)

\* variant: the dict of the "best" save pasted with its tracker epoch
LastRecordBestEpoch == Checkpoint(best_epoch, val_acc)

LastRecord == Checkpoint(epoch, val_acc)

NoEvent == [kind |-> "none"]

\* ---- initial state: train() is entered ----
AgeRuleIdle ==
    /\ item = 0
    /\ age_label = 0
    /\ age_value = 0
    /\ train_pred_age = 0
    /\ val_pred_age = 0
    /\ rule_pc = "idle"

AtEntry ==
    /\ config_writes = 0
    /\ params_age = 0
    /\ params_mask_gender = 0
    /\ opt_age = [steps |-> 0, lr |-> 0]
    /\ opt_mask_gender = [steps |-> 0, lr |-> 0]
    /\ sched_age = 0
    /\ sched_mask_gender = 0
    /\ loss_val_age = 0
    /\ loss_val_mask_gender = 0
    /\ matches = 0
    /\ win = <<>>
    /\ emitted = NoEvent
    /\ sink = <<>>
    /\ val_loss_items_age = <<>>
    /\ val_loss_items_mask_gender = <<>>
    /\ val_loss = Inf
    /\ best_val_loss = Inf

AtLoopEntry ==
    /\ pc = "init"
    /\ raised = "none"
    /\ epoch = 0
    /\ idx = 0
    /\ preds = NoPreds
    /\ vidx = 0
    /\ val_acc_items = <<>>
    /\ val_acc_items_age = <<>>
    /\ val_acc = Frac(0, 1)
    /\ val_acc_age = Frac(0, 1)
    /\ val_hist = <<>>
    /\ best_val_acc = Frac(0, 1)
    /\ best_epoch = 0
    /\ best_val_age_acc = Frac(0, 1)
    /\ best_epoch_age = 0
    /\ disk = [f \in Rolling |-> NoFile]
    /\ renamed = [f \in Rolling |-> NoFile]
    /\ AtEntry

Init ==
    /\ epochs \in 0..MaxEpochs
    /\ len_train_set = TrainSetSize
    /\ batch_size \in 1..(TrainSetSize + 1)
    /\ len_val_set \in 1..MaxValSize
    /\ valid_batch_size \in 1..MaxBatchSize
    /\ log_interval = 1
    /\ lr_decay_step = 1
    /\ AtLoopEntry
    /\ AgeRuleIdle

\* the same program on a larger validation split, for few epochs
InitVal ==
    /\ epochs \in 0..MaxValEpochs
    /\ len_train_set = TrainSetSize
    /\ batch_size \in 1..(TrainSetSize + 1)
    /\ len_val_set \in 1..MaxSplitSize
    /\ valid_batch_size \in 1..MaxBatchSize
    /\ log_interval = 1
    /\ lr_decay_step = 1
    /\ AtLoopEntry
    /\ AgeRuleIdle

\* the same program on a larger training split with log windows and decay
\* steps of several sizes, on a validation split of one example
InitTrain ==
    /\ epochs \in 0..MaxTrainEpochs
    /\ len_train_set = WideTrainSetSize
    /\ batch_size \in 1..(WideTrainSetSize + 1)
    /\ len_val_set = 1
    /\ valid_batch_size = 1
    /\ log_interval \in 1..MaxLogInterval
    /\ lr_decay_step \in 1..MaxDecayStep
    /\ AtLoopEntry
    /\ AgeRuleIdle

\* ---- before the loop ----
\* seeds, loaders, models, optimizers, schedulers, logger, config.json, trackers
Initialize ==
    /\ pc = "init"
    /\ config_writes' = config_writes + 1
    /\ pc' = "loop"
    /\ UNCHANGED <<config, heads, scheds, window, win, emitted, sink, lossitems,
                   losses, agerule, raised, epoch, idx, valpass, val_acc,
                   val_acc_age, val_hist, trackers, disk, renamed>>

\* ---- the epoch loop ----
\* for epoch in range(start_epoch, args.epochs): next iteration or loop exit
EpochBegin ==
    /\ pc = "loop"
    /\ epoch < epochs
    /\ pc' = "train"
    /\ idx' = 0
    /\ loss_val_age' = 0
    /\ loss_val_mask_gender' = 0
    /\ matches' = 0
    /\ win' = <<>>
    /\ UNCHANGED <<config, config_writes, heads, scheds, emitted, sink,
                   lossitems, losses, agerule, raised, epoch, valpass, val_acc,
                   val_acc_age, val_hist, trackers, disk, renamed>>

EpochsExhausted ==
    /\ pc = "loop"
    /\ epoch >= epochs
    /\ pc' = "rename_best"
    /\ UNCHANGED <<config, config_writes, heads, scheds, window, win, emitted,
                   sink, lossitems, losses, agerule, raised, epoch, idx, valpass,
                   val_acc, val_acc_age, val_hist, trackers, disk, renamed>>

\* variant: the window accumulators never reset after a flush
FlushKeepsCounters(o) ==
    LET flush == (idx + 1) % log_interval = 0
        la == loss_val_age + CriterionAge(o)
        lm == loss_val_mask_gender + CriterionMaskGender(o)
        m == matches + TrainMatches(o)
    IN /\ loss_val_age' = la
       /\ loss_val_mask_gender' = lm
       /\ matches' = m
       /\ IF flush
          THEN /\ emitted' = [kind |-> "train", step |-> TrainStep,
                              train_loss_age |-> Frac(la, log_interval),
                              train_loss_mask_gender |-> Frac(lm, log_interval),
                              train_acc |-> Frac(m, batch_size * log_interval)]
               /\ sink' = sink \o << <<"Train/loss", TrainStep>>,
                                     <<"Train/accuracy", TrainStep>> >>
          ELSE /\ emitted' = NoEvent
               /\ sink' = sink

\* accumulation of one batch with outcomes o, and the flush of the window
\* when (idx + 1) % log_interval == 0
Accumulate(o) ==
    LET flush == (idx + 1) % log_interval = 0
        la == loss_val_age + CriterionAge(o)
        lm == loss_val_mask_gender + CriterionMaskGender(o)
        m == matches + TrainMatches(o)
    IN IF flush
       THEN /\ emitted' = [kind |-> "train", step |-> TrainStep,
                           train_loss_age |-> Frac(la, log_interval),
                           train_loss_mask_gender |-> Frac(lm, log_interval),
                           train_acc |-> Frac(m, batch_size * log_interval)]
            /\ sink' = sink \o << <<"Train/loss", TrainStep>>,
                                  <<"Train/accuracy", TrainStep>> >>
            /\ loss_val_age' = 0
            /\ loss_val_mask_gender' = 0
            /\ matches' = 0
       ELSE /\ emitted' = NoEvent
            /\ sink' = sink
            /\ loss_val_age' = la
            /\ loss_val_mask_gender' = lm
            /\ matches' = m

\* variant: optimizer_mask_gender.step() left out
TrainBatchAgeOnly ==
    /\ pc = "train"
    /\ idx < LenTrainLoader
    /\ \E o \in [1..batch_size -> Outcome] :
         /\ Accumulate(o)
         /\ win' = (IF idx % log_interval = 0 THEN <<>> ELSE win)
                     \o <<[loss_age |-> CriterionAge(o),
                           loss_mask_gender |-> CriterionMaskGender(o),
                           correct |-> TrainMatches(o)]>>
    /\ params_age' = params_age + 1
    /\ opt_age' = [opt_age EXCEPT !.steps = @ + 1]
    /\ UNCHANGED <<params_mask_gender, opt_mask_gender>>
    /\ idx' = idx + 1
    /\ UNCHANGED <<config, config_writes, scheds, lossitems, losses, agerule, pc,
                   raised, epoch, valpass, val_acc, val_acc_age, val_hist,
                   trackers, disk, renamed>>

\* one iteration of the training-batch loop
TrainBatch ==
    /\ pc = "train"
    /\ idx < LenTrainLoader
    /\ \E o \in [1..batch_size -> Outcome] :
         /\ Accumulate(o)
         /\ win' = (IF idx % log_interval = 0 THEN <<>> ELSE win)
                     \o <<[loss_age |-> CriterionAge(o),
                           loss_mask_gender |-> CriterionMaskGender(o),
                           correct |-> TrainMatches(o)]>>
    /\ params_age' = params_age + 1
    /\ opt_age' = [opt_age EXCEPT !.steps = @ + 1]
    /\ params_mask_gender' = params_mask_gender + 1
    /\ opt_mask_gender' = [opt_mask_gender EXCEPT !.steps = @ + 1]
    /\ idx' = idx + 1
    /\ UNCHANGED <<config, config_writes, scheds, lossitems, losses, agerule, pc,
                   raised, epoch, valpass, val_acc, val_acc_age, val_hist,
                   trackers, disk, renamed>>

\* variant: a stray break after the first batch
SchedulerStepAfterFirstBatch ==
    /\ pc = "train"
    /\ idx >= 1 \/ idx = LenTrainLoader
    /\ sched_age' = sched_age + 1
    /\ opt_age' = [opt_age EXCEPT !.lr = StepLR(@, sched_age')]
    /\ sched_mask_gender' = sched_mask_gender + 1
    /\ opt_mask_gender' = [opt_mask_gender EXCEPT !.lr = StepLR(@, sched_mask_gender')]
    /\ pc' = "val"
    /\ preds' \in [1..len_val_set -> Outcome]
    /\ vidx' = 0
    /\ val_acc_items' = <<>>
    /\ val_acc_items_age' = <<>>
    /\ val_loss_items_age' = <<>>
    /\ val_loss_items_mask_gender' = <<>>
    /\ win' = <<>>
    /\ emitted' = NoEvent
    /\ UNCHANGED <<config, config_writes, params_age, params_mask_gender, window,
                   sink, losses, agerule, raised, epoch, idx, val_acc,
                   val_acc_age, val_hist, trackers, disk, renamed>>

\* variant: scheduler_mask_gender.step() left out
SchedulerStepAgeOnly ==
    /\ pc = "train"
    /\ idx = LenTrainLoader
    /\ sched_age' = sched_age + 1
    /\ opt_age' = [opt_age EXCEPT !.lr = StepLR(@, sched_age')]
    /\ pc' = "val"
    /\ preds' \in [1..len_val_set -> Outcome]
    /\ vidx' = 0
    /\ val_acc_items' = <<>>
    /\ val_acc_items_age' = <<>>
    /\ val_loss_items_age' = <<>>
    /\ val_loss_items_mask_gender' = <<>>
    /\ win' = <<>>
    /\ emitted' = NoEvent
    /\ UNCHANGED <<config, config_writes, params_age, params_mask_gender, window,
                   sched_mask_gender, opt_mask_gender,
                   sink, losses, agerule, raised, epoch, idx, val_acc,
                   val_acc_age, val_hist, trackers, disk, renamed>>

\* training loop exhausted: scheduler steps, eval mode, empty result lists
SchedulerStep ==
    /\ pc = "train"
    /\ idx = LenTrainLoader
    /\ sched_age' = sched_age + 1
    /\ opt_age' = [opt_age EXCEPT !.lr = StepLR(@, sched_age')]
    /\ sched_mask_gender' = sched_mask_gender + 1
    /\ opt_mask_gender' = [opt_mask_gender EXCEPT !.lr = StepLR(@, sched_mask_gender')]
    /\ pc' = "val"
    /\ preds' \in [1..len_val_set -> Outcome]
    /\ vidx' = 0
    /\ val_acc_items' = <<>>
    /\ val_acc_items_age' = <<>>
    /\ val_loss_items_age' = <<>>
    /\ val_loss_items_mask_gender' = <<>>
    /\ win' = <<>>
    /\ emitted' = NoEvent
    /\ UNCHANGED <<config, config_writes, params_age, params_mask_gender, window,
                   sink, losses, agerule, raised, epoch, idx, val_acc,
                   val_acc_age, val_hist, trackers, disk, renamed>>

\* one iteration of the validation-batch loop
ValidateBatch ==
    /\ pc = "val"
    /\ vidx < LenValLoader
    /\ LET o == [i \in ValBatch(vidx) |-> preds[i]]
       IN /\ val_acc_items' = Append(val_acc_items, JointCount(o))
          /\ val_acc_items_age' = Append(val_acc_items_age, AgeCount(o))
          /\ val_loss_items_age' = Append(val_loss_items_age, CriterionAge(o))
          /\ val_loss_items_mask_gender' =
                 Append(val_loss_items_mask_gender, CriterionMaskGender(o))
    /\ vidx' = vidx + 1
    /\ UNCHANGED <<config, config_writes, heads, scheds, window, win, emitted,
                   sink, losses, agerule, pc, raised, epoch, idx, preds, val_acc,
                   val_acc_age, val_hist, trackers, disk, renamed>>

\* validation loop exhausted: epoch-level metrics
EpochMetrics ==
    /\ pc = "val"
    /\ vidx = LenValLoader
    /\ val_loss' = LossAdd(Mean(val_loss_items_age, LenValLoader),
                           Mean(val_loss_items_mask_gender, LenValLoader))
    /\ val_acc' = Frac(SeqSum(val_acc_items), len_val_set)
    /\ val_acc_age' = Frac(SeqSum(val_acc_items_age), len_val_set)
    /\ best_val_loss' = PyMin(best_val_loss, val_loss')
    /\ val_hist' = Append(val_hist, [acc |-> val_acc', acc_age |-> val_acc_age',
                                     loss |-> val_loss'])
    /\ preds' = NoPreds
    /\ pc' = "save_best"
    /\ UNCHANGED <<config, config_writes, heads, scheds, window, win, emitted,
                   sink, lossitems, agerule, raised, epoch, idx, vidx,
                   val_acc_items, val_acc_items_age, trackers, disk, renamed>>

\* if val_acc > best_val_acc: ... torch.save(..., best.pth) succeeds
SaveBest ==
    /\ pc = "save_best"
    /\ IF ExceedsBest(val_acc, best_val_acc)
       THEN /\ best_epoch' = epoch
            /\ disk' = [disk EXCEPT !["best"] = BestRecord]
            /\ best_val_acc' = val_acc
       ELSE UNCHANGED <<best_epoch, disk, best_val_acc>>
    /\ pc' = "save_best_age"
    /\ UNCHANGED <<config, config_writes, heads, scheds, window, win, emitted,
                   sink, lossitems, losses, agerule,
                   raised, epoch, idx, valpass, val_acc, val_acc_age,
                   val_hist, best_val_age_acc, best_epoch_age, renamed>>

\* torch.save(..., best.pth) raises: best_epoch is already assigned
SaveBestFails ==
    /\ pc = "save_best"
    /\ ExceedsBest(val_acc, best_val_acc)
    /\ best_epoch' = epoch
    /\ disk' \in {disk, [disk EXCEPT !["best"] = Corrupt]}
    /\ raised' = "OSError"
    /\ pc' = "aborted"
    /\ UNCHANGED <<config, config_writes, heads, scheds, window, win, emitted,
                   sink, lossitems, losses, agerule,
                   epoch, idx, valpass, val_acc, val_acc_age, val_hist,
                   best_val_acc, best_val_age_acc, best_epoch_age, renamed>>

\* variant: "elif" in place of the second "if"
SaveBestAgeElif ==
    /\ pc = "save_best_age"
    /\ IF /\ ExceedsBestAge(val_acc_age, best_val_age_acc)
          /\ ~(disk["best"].kind = "ckpt" /\ disk["best"].epoch = epoch)
       THEN /\ best_epoch_age' = epoch
            /\ disk' = [disk EXCEPT !["best_age"] = BestAgeRecord]
            /\ best_val_age_acc' = val_acc_age
       ELSE UNCHANGED <<best_epoch_age, disk, best_val_age_acc>>
    /\ pc' = "save_last"
    /\ UNCHANGED <<config, config_writes, heads, scheds, window, win, emitted,
                   sink, lossitems, losses, agerule,
                   raised, epoch, idx, valpass, val_acc, val_acc_age,
                   val_hist, best_val_acc, best_epoch, renamed>>

\* if val_acc_age > best_val_age_acc: ... torch.save(..., best_age.pth) succeeds
SaveBestAge ==
    /\ pc = "save_best_age"
    /\ IF ExceedsBestAge(val_acc_age, best_val_age_acc)
       THEN /\ best_epoch_age' = epoch
            /\ disk' = [disk EXCEPT !["best_age"] = BestAgeRecord]
            /\ best_val_age_acc' = val_acc_age
       ELSE UNCHANGED <<best_epoch_age, disk, best_val_age_acc>>
    /\ pc' = "save_last"
    /\ UNCHANGED <<config, config_writes, heads, scheds, window, win, emitted,
                   sink, lossitems, losses, agerule,
                   raised, epoch, idx, valpass, val_acc, val_acc_age,
                   val_hist, best_val_acc, best_epoch, renamed>>

SaveBestAgeFails ==
    /\ pc = "save_best_age"
    /\ ExceedsBestAge(val_acc_age, best_val_age_acc)
    /\ best_epoch_age' = epoch
    /\ disk' \in {disk, [disk EXCEPT !["best_age"] = Corrupt]}
    /\ raised' = "OSError"
    /\ pc' = "aborted"
    /\ UNCHANGED <<config, config_writes, heads, scheds, window, win, emitted,
                   sink, lossitems, losses, agerule,
                   epoch, idx, valpass, val_acc, val_acc_age, val_hist,
                   best_val_acc, best_epoch, best_val_age_acc, renamed>>

\* variant: "last" written in every other epoch only
SaveLastEveryOtherEpoch ==
    /\ pc = "save_last"
    /\ disk' = IF epoch % 2 = 0 THEN [disk EXCEPT !["last"] = LastRecord] ELSE disk
    /\ pc' = "log_val"
    /\ UNCHANGED <<config, config_writes, heads, scheds, window, win, emitted,
                   sink, lossitems, losses, agerule,
                   raised, epoch, idx, valpass, val_acc, val_acc_age,
                   val_hist, trackers, renamed>>

\* torch.save(..., last.pth) succeeds
SaveLast ==
    /\ pc = "save_last"
    /\ disk' = [disk EXCEPT !["last"] = LastRecord]
    /\ pc' = "log_val"
    /\ UNCHANGED <<config, config_writes, heads, scheds, window, win, emitted,
                   sink, lossitems, losses, agerule,
                   raised, epoch, idx, valpass, val_acc, val_acc_age,
                   val_hist, trackers, renamed>>

\* variant: the save wrapped in "try: ... except OSError: pass"
SaveLastFailsSwallowed ==
    /\ pc = "save_last"
    /\ disk' \in {disk, [disk EXCEPT !["last"] = Corrupt]}
    /\ raised' = "OSError"
    /\ pc' = "log_val"
    /\ UNCHANGED <<config, config_writes, heads, scheds, window, win, emitted,
                   sink, lossitems, losses, agerule,
                   epoch, idx, valpass, val_acc, val_acc_age, val_hist,
                   trackers, renamed>>

\* torch.save(..., last.pth) raises
SaveLastFails ==
    /\ pc = "save_last"
    /\ disk' \in {disk, [disk EXCEPT !["last"] = Corrupt]}
    /\ raised' = "OSError"
    /\ pc' = "aborted"
    /\ UNCHANGED <<config, config_writes, heads, scheds, window, win, emitted,
                   sink, lossitems, losses, agerule,
                   epoch, idx, valpass, val_acc, val_acc_age, val_hist,
                   trackers, renamed>>

\* print / add_scalar of the validation results; end of the loop body
LogVal ==
    /\ pc = "log_val"
    /\ sink' = sink \o << <<"Val/loss", epoch>>, <<"Val/accuracy", epoch>> >>
    /\ epoch' = epoch + 1
    /\ pc' = "loop"
    /\ UNCHANGED <<config, config_writes, heads, scheds, window, win, emitted,
                   lossitems, losses, agerule, raised, idx, valpass, val_acc,
                   val_acc_age, val_hist, trackers, disk, renamed>>

\* ---- the renames after the loop ----
\* os.rename(src, dst) of an existing file
Rename(f, n, next) ==
    /\ disk[f] # NoFile
    /\ renamed' = [renamed EXCEPT ![f] = [tag |-> Fmt03(n), rec |-> disk[f]]]
    /\ disk' = [disk EXCEPT ![f] = NoFile]
    /\ pc' = next
    /\ UNCHANGED <<config, config_writes, heads, scheds, window, win, emitted,
                   sink, lossitems, losses, agerule,
                   raised, epoch, idx, valpass, val_acc, val_acc_age,
                   val_hist, trackers>>

\* os.rename(src, dst) raises: src missing (FileNotFoundError) or another OSError
RenameFails(f) ==
    /\ raised' = IF disk[f] = NoFile THEN "FileNotFoundError" ELSE "OSError"
    /\ pc' = "aborted"
    /\ UNCHANGED <<config, config_writes, heads, scheds, window, win, emitted,
                   sink, lossitems, losses, agerule,
                   epoch, idx, valpass, val_acc, val_acc_age, val_hist,
                   trackers, disk, renamed>>

RenameBest == pc = "rename_best" /\ Rename("best", best_epoch, "rename_last")

RenameBestFails == pc = "rename_best" /\ RenameFails("best")

RenameLast == pc = "rename_last" /\ Rename("last", epochs - 1, "rename_best_age")

RenameLastFails == pc = "rename_last" /\ RenameFails("last")

RenameBestAge == pc = "rename_best_age" /\ Rename("best_age", best_epoch_age, "done")

RenameBestAgeFails == pc = "rename_best_age" /\ RenameFails("best_age")

\* ---- the age decision on one element of outs_age ----
InitAge ==
    /\ epochs = 0
    /\ len_train_set = TrainSetSize
    /\ batch_size = 1
    /\ len_val_set = 1
    /\ valid_batch_size = 1
    /\ log_interval = 1
    /\ lr_decay_step = 1
    /\ AtLoopEntry
    /\ item \in (0 - MaxAgeOutput)..MaxAgeOutput
    /\ age_label \in 0..2
    /\ age_value = 0
    /\ train_pred_age = 0
    /\ val_pred_age = 0
    /\ rule_pc = "decoded"

rest_of_train ==
    <<config, config_writes, heads, scheds, window, win, emitted, sink,
      lossitems, losses, pc, raised, epoch, idx, valpass, val_acc, val_acc_age,
      val_hist, trackers, disk, renamed>>

\* age_value = value_mapping[age_label]
MapAgeLabel ==
    /\ rule_pc = "decoded"
    /\ age_value' = value_mapping[age_label]
    /\ rule_pc' = "mapped"
    /\ UNCHANGED <<item, age_label, train_pred_age, val_pred_age, rest_of_train>>

\* the if / elif / else on the element in the training loop
DecideAgeTrain ==
    /\ rule_pc = "mapped"
    /\ train_pred_age' = TrainAgeRule(item)
    /\ rule_pc' = "train_decided"
    /\ UNCHANGED <<item, age_label, age_value, val_pred_age, rest_of_train>>

\* the if / elif / else on the same element in the validation loop
DecideAgeVal ==
    /\ rule_pc = "train_decided"
    /\ val_pred_age' = ValAgeRule(item)
    /\ rule_pc' = "decided"
    /\ UNCHANGED <<item, age_label, age_value, train_pred_age, rest_of_train>>

NextAge ==
    \/ MapAgeLabel
    \/ DecideAgeTrain
    \/ DecideAgeVal

AgeSpec == InitAge /\ [][NextAge]_vars

Next ==
    \/ Initialize
    \/ EpochBegin
    \/ EpochsExhausted
    \/ TrainBatch
    \/ SchedulerStep
    \/ ValidateBatch
    \/ EpochMetrics
    \/ SaveBest
    \/ SaveBestFails
    \/ SaveBestAge
    \/ SaveBestAgeFails
    \/ SaveLast
    \/ SaveLastFails
    \/ LogVal
    \/ RenameBest
    \/ RenameBestFails
    \/ RenameLast
    \/ RenameLastFails
    \/ RenameBestAge
    \/ RenameBestAgeFails

Spec == Init /\ [][Next]_vars

ValSpec == InitVal /\ [][Next]_vars

TrainSpec == InitTrain /\ [][Next]_vars

\* ---- properties ----
IsCkpt(f) == disk[f].kind = "ckpt"

FracEq(a, b) == a[1] * b[2] = b[1] * a[2]

\* this epoch's joint accuracy is above 0 and above that of every earlier epoch
BeatsEarlierJoint ==
    /\ val_acc[1] > 0
    /\ \A k \in 1..(Len(val_hist) - 1) : FracGT(val_acc, val_hist[k].acc)

BeatsEarlierAge ==
    /\ val_acc_age[1] > 0
    /\ \A k \in 1..(Len(val_hist) - 1) : FracGT(val_acc_age, val_hist[k].acc_age)

\* C1: the step that decides on "best" in epoch e overwrites best.pth with the
\* record of epoch e, sets best_epoch to e and best_val_acc to the epoch's
\* joint accuracy exactly when that accuracy is strictly above every earlier
\* epoch's (and above 0); otherwise the file and both trackers are unchanged.
C1_BestIffStrictlyBetter ==
    [][(pc = "save_best" /\ pc' # "aborted") =>
         IF BeatsEarlierJoint
         THEN /\ disk'["best"].kind = "ckpt"
              /\ disk'["best"].epoch = epoch
              /\ disk'["best"].accuracy = val_acc
              /\ best_epoch' = epoch
              /\ best_val_acc' = val_acc
         ELSE /\ disk'["best"] = disk["best"]
              /\ best_epoch' = best_epoch
              /\ best_val_acc' = best_val_acc]_vars

\* epoch 0 wrote "best" with a joint accuracy above 0, epoch 1 improved on it
\* and overwrote the file
C1_Witness ==
    /\ pc = "save_best_age"
    /\ epoch = 1
    /\ val_hist[1].acc[1] > 0
    /\ FracGT(val_hist[2].acc, val_hist[1].acc)
    /\ IsCkpt("best")
    /\ disk["best"].epoch = 1
    /\ best_epoch = 1

\* C2: the step that decides on "best_age" in epoch e overwrites best_age.pth,
\* sets best_epoch_age to e and best_val_age_acc to the epoch's age accuracy
\* exactly when that accuracy is strictly above every earlier epoch's (and
\* above 0), whatever the joint accuracy did in epoch e.
C2_BestAgeIffStrictlyBetter ==
    [][(pc = "save_best_age" /\ pc' # "aborted") =>
         IF BeatsEarlierAge
         THEN /\ disk'["best_age"].kind = "ckpt"
              /\ disk'["best_age"].epoch = epoch
              /\ disk'["best_age"].accuracy = val_acc
              /\ best_epoch_age' = epoch
              /\ best_val_age_acc' = val_acc_age
         ELSE /\ disk'["best_age"] = disk["best_age"]
              /\ best_epoch_age' = best_epoch_age
              /\ best_val_age_acc' = best_val_age_acc]_vars

\* "best_age" was overwritten in epoch 1, in which the joint accuracy did not
\* improve and "best" kept the record of epoch 0
C2_Witness ==
    /\ pc = "save_last"
    /\ epoch = 1
    /\ IsCkpt("best") /\ disk["best"].epoch = 0
    /\ IsCkpt("best_age") /\ disk["best_age"].epoch = 1
    /\ best_epoch_age = 1

\* C3: "last" is written in every epoch: where the epoch's checkpoint step is
\* over its stored epoch is the epoch just completed, after N >= 1 epochs it
\* is N-1, and the name it is renamed to embeds that same number.
C3_LastHoldsEpochJustCompleted ==
    /\ pc = "log_val" => IsCkpt("last") /\ disk["last"].epoch = epoch
    /\ (pc = "loop" /\ epoch >= 1) => IsCkpt("last") /\ disk["last"].epoch = epoch - 1
    /\ (pc \in {"rename_best", "rename_last"} /\ epochs >= 1) =>
           IsCkpt("last") /\ disk["last"].epoch = epochs - 1
    /\ renamed["last"] # NoFile =>
           /\ renamed["last"].rec.epoch = epochs - 1
           /\ renamed["last"].tag = Fmt03(renamed["last"].rec.epoch)

C3_Witness ==
    /\ epochs = 2
    /\ renamed["last"] # NoFile
    /\ renamed["last"].tag = <<0, 0, 1>>
    /\ best_epoch = 0

\* both loaders yield at least one batch per pass
BothLoadersYield == LenTrainLoader >= 1 /\ LenValLoader >= 1

\* the renames are over: all done, or stopped by a missing source file
FinalizingEnded ==
    \/ pc = "done"
    \/ pc = "aborted" /\ raised = "FileNotFoundError"

\* C4: when FINALIZING is over no checkpoint is left under its rolling name,
\* and each renamed file's name embeds the epoch stored in it (stated for
\* sessions whose loaders yield batches).
C4_AllRollingFilesRenamed ==
    (BothLoadersYield /\ FinalizingEnded) =>
        \A f \in Rolling :
            /\ disk[f] = NoFile
            /\ renamed[f] # NoFile => renamed[f].tag = Fmt03(renamed[f].rec.epoch)

\* C5: a session of N >= 1 epochs whose loaders yield batches and in which no
\* collaborator raised does not stop short of DONE (the finite-run form of
\* "eventually reaches DONE": the only states without a successor are DONE
\* and the aborted ones).
C5_StopsOnlyAtDone ==
    (epochs >= 1 /\ BothLoadersYield /\ pc = "aborted") => raised = "OSError"

AtEndOfRun ==
    /\ epochs >= 1
    /\ pc \in {"rename_best", "rename_last", "rename_best_age", "done"}

\* C6: at the end of a run best_epoch is the first epoch whose joint accuracy
\* is the maximum over the run, and best_epoch_age the first epoch whose age
\* accuracy is the maximum over the run.
C6_BestEpochIsFirstMaximum ==
    AtEndOfRun =>
        /\ \A k \in 1..Len(val_hist) :
               /\ ~FracGT(val_hist[k].acc, val_hist[best_epoch + 1].acc)
               /\ k < best_epoch + 1 => FracGT(val_hist[best_epoch + 1].acc, val_hist[k].acc)
        /\ \A k \in 1..Len(val_hist) :
               /\ ~FracGT(val_hist[k].acc_age, val_hist[best_epoch_age + 1].acc_age)
               /\ k < best_epoch_age + 1 =>
                      FracGT(val_hist[best_epoch_age + 1].acc_age, val_hist[k].acc_age)

\* two epochs with the same joint accuracy above 0, the age accuracy higher in
\* the second: the joint maximum is first reached in epoch 0, the age maximum
\* in epoch 1
C6_Witness ==
    /\ AtEndOfRun
    /\ epochs = 2
    /\ val_hist[1].acc[1] > 0
    /\ FracEq(val_hist[2].acc, val_hist[1].acc)
    /\ FracGT(val_hist[2].acc_age, val_hist[1].acc_age)
    /\ best_epoch = 0
    /\ best_epoch_age = 1

\* number of examples of the whole validation split the model gets right
JointCorrect == Cardinality({i \in 1..len_val_set : preds[i].age /\ preds[i].mg})
AgeCorrect == Cardinality({i \in 1..len_val_set : preds[i].age})

\* C7: the epoch's validation accuracies are the numbers of correctly
\* predicted examples of the validation split over the split size (stated for
\* passes of at least one batch).
C7_AccuracyIsExactFraction ==
    [][(pc = "val" /\ pc' = "save_best" /\ LenValLoader >= 1) =>
         /\ FracEq(val_acc', Frac(JointCorrect, len_val_set))
         /\ FracEq(val_acc_age', Frac(AgeCorrect, len_val_set))]_vars

\* C8: in a session of N >= 1 epochs with a split that yields zero batches,
\* the first epoch computes no epoch metrics and writes no "last" checkpoint,
\* and no further epoch starts.
C8_ZeroBatchesAbort ==
    (epochs >= 1 /\ (LenTrainLoader = 0 \/ LenValLoader = 0)) =>
        /\ val_hist = <<>>
        /\ disk["last"] = NoFile
        /\ epoch = 0

LastAtLeast(f) ==
    IsCkpt(f) => IsCkpt("last") /\ disk["last"].epoch >= disk[f].epoch

\* C9 as stated: at every point of a running session "last" is at least as
\* recent as "best" and "best_age" (stated for sessions whose loaders yield
\* batches).
C9_LastMostRecentAlways ==
    (BothLoadersYield /\ pc # "aborted") =>
        LastAtLeast("best") /\ LastAtLeast("best_age")

\* from the write of "last" up to the next checkpoint write or the first rename
AtEpochBoundary ==
    pc \in {"log_val", "loop", "train", "val", "save_best", "rename_best"}

\* C9 amended: at the epoch boundaries "last" is at least as recent as "best"
\* and "best_age".
C9_LastMostRecentAtBoundary ==
    AtEpochBoundary => LastAtLeast("best") /\ LastAtLeast("best_age")

C9_Witness ==
    /\ pc = "train"
    /\ epoch = 1
    /\ idx = 1
    /\ IsCkpt("best") /\ disk["best"].epoch = 0
    /\ IsCkpt("best_age") /\ disk["best_age"].epoch = 0
    /\ IsCkpt("last") /\ disk["last"].epoch = 0

\* C10: a step in which a save or a rename raises ends the session, and an
\* ended session writes no file, renames no file and trains no batch.
C10_FailureEndsSession ==
    [][/\ raised' # "none" => pc' = "aborted"
       /\ raised # "none" => UNCHANGED <<disk, renamed, pc, epoch, idx>>]_vars

\* the write of "best" failed in an epoch >= 1 after best_epoch had advanced
C10_Witness ==
    /\ pc = "aborted"
    /\ raised = "OSError"
    /\ epoch >= 1
    /\ best_epoch = epoch
    /\ IsCkpt("best")
    /\ disk["best"].epoch < epoch
    /\ IsCkpt("last")
    /\ disk["last"].epoch = epoch - 1

\* ---- phases, schedulers, parameters ----
InEpochBody == pc \in {"train", "val", "save_best", "save_best_age", "save_last", "log_val"}

AfterTrainingPass == pc \in {"val", "save_best", "save_best_age", "save_last", "log_val"}

Finalizing == pc \in {"rename_best", "rename_last", "rename_best_age"}

SomeRenamed == \E f \in Rolling : renamed[f] # NoFile

\* "last" of epoch e, under its rolling name or renamed
LastHolds(e) ==
    \/ IsCkpt("last") /\ disk["last"].epoch = e
    \/ renamed["last"] # NoFile /\ renamed["last"].rec.epoch = e

\* the order of the positions of train(); a failing step leaves the order for
\* the end of the session
PhaseOrderStep ==
    \/ pc' = pc
    \/ pc' = "aborted" /\ raised' # "none"
    \/ pc = "init" /\ pc' = "loop" /\ epoch' = 0
    \/ pc = "loop" /\ epoch < epochs /\ pc' = "train" /\ idx' = 0
    \/ pc = "loop" /\ epoch = epochs /\ pc' = "rename_best"
    \/ pc = "train" /\ idx = LenTrainLoader /\ pc' = "val"
    \/ pc = "val" /\ vidx = LenValLoader /\ pc' = "save_best"
    \/ pc = "save_best" /\ pc' = "save_best_age"
    \/ pc = "save_best_age" /\ pc' = "save_last"
    \/ pc = "save_last" /\ pc' = "log_val"
    \/ pc = "log_val" /\ pc' = "loop" /\ epoch' = epoch + 1
    \/ pc = "rename_best" /\ pc' = "rename_last"
    \/ pc = "rename_last" /\ pc' = "rename_best_age"
    \/ pc = "rename_best_age" /\ pc' = "done"

PhaseOrderState ==
    /\ config_writes = (IF pc = "init" THEN 0 ELSE 1)
    /\ pc = "train" => idx <= LenTrainLoader
    /\ AfterTrainingPass => idx = LenTrainLoader
    /\ (InEpochBody /\ pc # "log_val" /\ epoch >= 1) =>
           IsCkpt("last") /\ disk["last"].epoch = epoch - 1
    /\ (Finalizing \/ pc = "done" \/ SomeRenamed) =>
           /\ epoch = epochs
           /\ Len(val_hist) = epochs
           /\ epochs >= 1 => LastHolds(epochs - 1)

\* C11: the positions of train() follow one another in the order
\* initialisation, then per epoch training pass, validation pass and the
\* three checkpoint steps, then the renames, then the end; config.json is
\* written exactly once, before the first training batch; the validation pass
\* of an epoch starts only when all its training batches are done; the
\* training pass of epoch e+1 runs only with "last" of epoch e on disk; a
\* rename happens only when all epochs are validated and "last" of the final
\* epoch is written.
C11_PhasesInOrder ==
    /\ []PhaseOrderState
    /\ [][PhaseOrderStep /\ (epoch' # epoch => pc = "log_val")]_vars

\* two epochs of four training batches each, run to the end
C11_Witness ==
    /\ pc = "done"
    /\ epochs = 2
    /\ LenTrainLoader = 4
    /\ Len(val_hist) = 2
    /\ \A f \in Rolling : renamed[f] # NoFile


\* scheduler steps taken so far, as the position in the run tells
StepsDue == IF AfterTrainingPass THEN epoch + 1 ELSE epoch

SchedulersInStep ==
    /\ sched_age = sched_mask_gender
    /\ pc # "aborted" => sched_age = StepsDue
    /\ pc \in {"loop", "train"} =>
           /\ opt_age.lr = epoch \div lr_decay_step
           /\ opt_mask_gender.lr = epoch \div lr_decay_step

SchedulersStepOnce ==
    (sched_age' # sched_age \/ sched_mask_gender' # sched_mask_gender) =>
        /\ pc = "train" /\ idx = LenTrainLoader
        /\ pc' = "val" /\ vidx' = 0
        /\ sched_age' = sched_age + 1
        /\ sched_mask_gender' = sched_mask_gender + 1

\* C12: both schedulers are stepped together, once per epoch, in the step that
\* ends the training pass and starts the validation pass; during the training
\* pass of epoch e each has been stepped e times and each head's learning
\* rate has been halved floor(e / lr_decay_step) times; the two step counts
\* are equal in every state.
C12_SchedulersOncePerEpoch ==
    /\ []SchedulersInStep
    /\ [][SchedulersStepOnce]_vars

\* the training pass of epoch 1 under a decay step of 1: one step, one halving
C12_Witness ==
    /\ pc = "train"
    /\ epoch = 1
    /\ idx = 2
    /\ lr_decay_step = 1
    /\ sched_age = 1
    /\ opt_age.lr = 1
    /\ opt_mask_gender.lr = 1

HeadsStepped ==
    /\ params_age' = params_age + 1
    /\ params_mask_gender' = params_mask_gender + 1
    /\ opt_age' = [opt_age EXCEPT !.steps = @ + 1]
    /\ opt_mask_gender' = [opt_mask_gender EXCEPT !.steps = @ + 1]

IsTrainBatchStep == pc = "train" /\ idx < LenTrainLoader /\ idx' = idx + 1

IsSchedulerStep == pc = "train" /\ idx = LenTrainLoader /\ pc' = "val"

\* C13 as stated: parameters and optimizer state of both heads change in the
\* per-batch optimization step only (stated for sessions whose loaders yield
\* batches).
C13_OnlyBatchStepChangesHeads ==
    [][(BothLoadersYield /\ heads' # heads) => IsTrainBatchStep /\ HeadsStepped]_vars

\* the state_dict() entries at the end of epoch e: one optimizer step per
\* training batch of epochs 0..e, then the scheduler steps of epochs 0..e
StateAfterEpoch(e) ==
    LET n == (e + 1) * LenTrainLoader
        o == [steps |-> n, lr |-> (e + 1) \div lr_decay_step]
    IN [model_mask_gender |-> n, optimizer_mask_gender |-> o,
        model_age |-> n, optimizer_age |-> o]

HeadsFrame ==
    /\ <<params_age, params_mask_gender>>' # <<params_age, params_mask_gender>> =>
           IsTrainBatchStep
    /\ heads' # heads =>
           \/ IsTrainBatchStep /\ HeadsStepped
           \/ /\ IsSchedulerStep
              /\ UNCHANGED <<params_age, params_mask_gender>>
              /\ opt_age'.steps = opt_age.steps
              /\ opt_mask_gender'.steps = opt_mask_gender.steps

CheckpointsOfEpochAgree ==
    /\ AfterTrainingPass => StateDicts = StateAfterEpoch(epoch)
    /\ \A f \in Rolling : IsCkpt(f) => disk[f].state = StateAfterEpoch(disk[f].epoch)

\* C13 amended: the parameters of both heads change in the per-batch
\* optimization step only; the optimizer state changes in that step and, in
\* its learning rate alone, in the scheduler step that ends the training
\* pass; the validation pass, the bookkeeping, the checkpoint writes and the
\* renames change neither, so every checkpoint holds the parameters at the
\* end of the training pass of the epoch stored in it and the optimizer state
\* after that epoch's scheduler step.
C13_HeadsChangeInTrainingPassOnly ==
    /\ []CheckpointsOfEpochAgree
    /\ [][HeadsFrame]_vars

\* epoch 1 wrote all three files, after two training batches per epoch and a
\* halving of the learning rate at the second scheduler step
C13_Witness ==
    /\ pc = "log_val"
    /\ epoch = 1
    /\ LenTrainLoader = 2
    /\ lr_decay_step = 2
    /\ \A f \in Rolling : IsCkpt(f) /\ disk[f].epoch = 1
    /\ disk["best"].state.model_age = 4
    /\ disk["best"].state.optimizer_age = [steps |-> 4, lr |-> 1]

\* ---- log windows and the metrics sink ----
WinLossAge(w) == SeqSum([i \in 1..Len(w) |-> w[i].loss_age])
WinLossMaskGender(w) == SeqSum([i \in 1..Len(w) |-> w[i].loss_mask_gender])
WinCorrect(w) == SeqSum([i \in 1..Len(w) |-> w[i].correct])

\* number of events of one metric name in the sink
Events(name) == Cardinality({i \in DOMAIN sink : sink[i][1] = name})

\* window events of the run due at the position reached
FlushesDue ==
    IF pc \in {"init", "loop"} \/ Finalizing \/ pc = "done"
    THEN epoch * (LenTrainLoader \div log_interval)
    ELSE IF pc = "train"
    THEN epoch * (LenTrainLoader \div log_interval) + idx \div log_interval
    ELSE (epoch + 1) * (LenTrainLoader \div log_interval)

WindowState ==
    /\ pc # "aborted" =>
           /\ Events("Train/loss") = FlushesDue
           /\ Events("Train/accuracy") = FlushesDue
    /\ pc = "train" =>
           IF idx % log_interval = 0
           THEN loss_val_age = 0 /\ loss_val_mask_gender = 0 /\ matches = 0
           ELSE /\ Len(win) = idx % log_interval
                /\ loss_val_age = WinLossAge(win)
                /\ loss_val_mask_gender = WinLossMaskGender(win)
                /\ matches = WinCorrect(win)

WindowStep ==
    IsTrainBatchStep =>
        IF (idx + 1) % log_interval = 0
        THEN /\ emitted'.kind = "train"
             /\ Len(win') = log_interval
             /\ emitted'.train_loss_age = Frac(WinLossAge(win'), log_interval)
             /\ emitted'.train_loss_mask_gender =
                    Frac(WinLossMaskGender(win'), log_interval)
             /\ emitted'.train_acc = Frac(WinCorrect(win'), batch_size * log_interval)
             /\ Len(sink') = Len(sink) + 2
             /\ loss_val_age' = 0 /\ loss_val_mask_gender' = 0 /\ matches' = 0
        ELSE emitted' = NoEvent /\ sink' = sink

\* C14: a training pass of B batches with log interval L emits floor(B / L)
\* window events, one in the step of each batch idx with (idx + 1) mod L = 0;
\* an event reports the loss sums of the L batches since the previous flush (or
\* the epoch start) over L and their joint-correct count over batch_size * L;
\* the window counters are 0 after a flush and at the start of an epoch, so
\* the batches after the last flush of an epoch enter no window.
C14_WindowEvents ==
    /\ []WindowState
    /\ [][WindowStep]_vars

\* the second flush of epoch 1 with four batches of one example and windows
\* of two: one of the two examples of the window was right
C14_Witness ==
    /\ pc = "train"
    /\ epoch = 1
    /\ log_interval = 2
    /\ LenTrainLoader = 4
    /\ idx = 4
    /\ emitted # NoEvent
    /\ emitted.step = 7
    /\ emitted.train_acc = Frac(1, 2)
    /\ emitted.train_loss_age = Frac(1, 2)
    /\ Events("Train/loss") = 4

\* ---- the age decision ----
\* the band of a prediction p as the thresholds 30 and 60 define it
BandOf(p) == IF p < 30 THEN 0 ELSE IF p >= 60 THEN 2 ELSE 1

\* C15: a prediction below 30 is decided as band 0, one from 30 up to but not
\* including 60 as band 1, one from 60 on as band 2 (30 and 60 go to the
\* higher band), and the training loop and the validation loop decide every
\* prediction alike.
C15_SameBandInBothLoops ==
    rule_pc = "decided" =>
        /\ train_pred_age = value_mapping[BandOf(item)]
        /\ val_pred_age = value_mapping[BandOf(item)]
        /\ train_pred_age = val_pred_age

\* the prediction 60, decided as band 2 in both loops
C15_Witness ==
    /\ rule_pc = "decided"
    /\ item = 60
    /\ train_pred_age = 100
    /\ val_pred_age = 100

\* C19: the threshold rule applied to the mapped value of a band gives that
\* value back, for each of the three bands, and a prediction compares equal to
\* the mapped target exactly when its band is the target band.
C19_MappingThenThresholdIsIdentity ==
    /\ \A b \in 0..2 : /\ TrainAgeRule(value_mapping[b]) = value_mapping[b]
                       /\ ValAgeRule(value_mapping[b]) = value_mapping[b]
    /\ rule_pc = "decided" =>
           /\ (train_pred_age = age_value) <=> (BandOf(item) = age_label)
           /\ (val_pred_age = age_value) <=> (BandOf(item) = age_label)

\* target band 1 and a prediction of 59: counted correct in both loops
C19_Witness ==
    /\ rule_pc = "decided"
    /\ age_label = 1
    /\ age_value = 45
    /\ item = 59
    /\ train_pred_age = age_value
    /\ val_pred_age = age_value

\* ---- validation loss, accuracies, files against trackers ----
LossEq(a, b) ==
    /\ a.k = b.k
    /\ a.k # "nan"
    /\ a.k = "num" => a.v[1] * b.v[2] = b.v[1] * a.v[2]

\* best_val_loss is the least of the validation losses of the epochs validated
RunningMinimum ==
    Len(val_hist) >= 1 =>
        /\ \E k \in 1..Len(val_hist) : LossEq(best_val_loss, val_hist[k].loss)
        /\ \A j \in 1..Len(val_hist) : ~LossLT(val_hist[j].loss, best_val_loss)

\* C16: after the validation pass of each epoch best_val_loss is the minimum
\* of the summed validation losses of the epochs so far, and no step raises it
\* (stated for sessions whose training loader yields batches).
C16_BestValLossIsRunningMinimum ==
    /\ [](LenTrainLoader >= 1 => RunningMinimum)
    /\ [][~LossLT(best_val_loss, best_val_loss')]_vars

\* the same statement for sessions whose validation loader yields batches
C16_RunningMinimumWithBatches ==
    /\ [](LenValLoader >= 1 => RunningMinimum)
    /\ [][~LossLT(best_val_loss, best_val_loss')]_vars

JointAtMostAge ==
    /\ pc = "val" =>
           /\ Len(val_acc_items) = Len(val_acc_items_age)
           /\ \A b \in 1..Len(val_acc_items) : val_acc_items[b] <= val_acc_items_age[b]
    /\ \A k \in 1..Len(val_hist) : ~FracGT(val_hist[k].acc, val_hist[k].acc_age)

\* C17: in every validation pass the joint-correct count of a batch is at most
\* its age-correct count and the joint accuracy at most the age accuracy; at
\* the epoch boundaries best_val_acc is at most best_val_age_acc and
\* "best_age" exists whenever "best" does.
C17_JointNeverAboveAge ==
    /\ JointAtMostAge
    /\ AtEpochBoundary =>
           /\ ~FracGT(best_val_acc, best_val_age_acc)
           /\ IsCkpt("best") => IsCkpt("best_age")

\* after epoch 0 with half of the examples jointly right and all age-right
C17_Witness ==
    /\ pc = "loop"
    /\ epoch = 1
    /\ IsCkpt("best")
    /\ IsCkpt("best_age")
    /\ best_val_acc = Frac(1, 2)
    /\ best_val_age_acc = Frac(2, 2)

\* the joint accuracy of epoch e
JointAccuracyOf(e) == val_hist[e + 1].acc

StoredAccuracyIsJoint(f) ==
    IsCkpt(f) =>
        /\ disk[f].epoch + 1 \in 1..Len(val_hist)
        /\ FracEq(disk[f].accuracy, JointAccuracyOf(disk[f].epoch))

\* C18: at the epoch boundaries "best", where it exists, stores best_epoch and
\* best_val_acc; "best_age", where it exists, stores best_epoch_age and the
\* joint accuracy of that epoch; every checkpoint stores the joint accuracy of
\* the epoch it stores.
C18_FilesAgreeWithTrackers ==
    AtEpochBoundary =>
        /\ IsCkpt("best") =>
               /\ disk["best"].epoch = best_epoch
               /\ FracEq(disk["best"].accuracy, best_val_acc)
        /\ IsCkpt("best_age") => disk["best_age"].epoch = best_epoch_age
        /\ \A f \in Rolling : StoredAccuracyIsJoint(f)

\* "best_age" of epoch 1 stores a joint accuracy below the age accuracy that
\* selected it, and "best" is still the one of epoch 0
C18_Witness ==
    /\ pc = "loop"
    /\ epoch = 2
    /\ IsCkpt("best") /\ disk["best"].epoch = 0
    /\ IsCkpt("best_age") /\ disk["best_age"].epoch = 1
    /\ best_epoch_age = 1
    /\ FracGT(best_val_age_acc, disk["best_age"].accuracy)
    /\ FracEq(disk["best_age"].accuracy, val_hist[2].acc)

\* the step keys of the events of one metric name, in the order written
StepsIncrease(name) ==
    \A i, j \in DOMAIN sink :
        (i < j /\ sink[i][1] = name /\ sink[j][1] = name) => sink[i][2] < sink[j][2]

StepKeys(name) == {sink[i][2] : i \in {k \in DOMAIN sink : sink[k][1] = name}}

\* epochs whose validation results are logged
EpochsLogged == IF pc = "aborted" THEN StepKeys("Val/loss") ELSE 0..(epoch - 1)

\* C20: the step keys of the training events of each metric name increase
\* strictly in the order the events are written, so no key is used twice; the
\* validation events of each name carry the epoch indices, each once.
C20_StepKeysUnique ==
    /\ StepsIncrease("Train/loss")
    /\ StepsIncrease("Train/accuracy")
    /\ StepsIncrease("Val/loss")
    /\ StepsIncrease("Val/accuracy")
    /\ StepKeys("Val/loss") = EpochsLogged
    /\ StepKeys("Val/accuracy") = EpochsLogged
    /\ \A i \in DOMAIN sink :
           sink[i][1] \in {"Train/loss", "Train/accuracy"} =>
               sink[i][2] \div LenTrainLoader < epochs

\* two epochs of four batches with windows of two: keys 1, 3, 5, 7 and 0, 1
C20_Witness ==
    /\ pc = "loop"
    /\ epoch = 2
    /\ LenTrainLoader = 4
    /\ log_interval = 2
    /\ StepKeys("Train/loss") = {1, 3, 5, 7}
    /\ StepKeys("Train/accuracy") = {1, 3, 5, 7}
    /\ StepKeys("Val/loss") = {0, 1}
    /\ Len(sink) = 12

TypeOK ==
    /\ pc \in {"init", "loop", "train", "val", "save_best", "save_best_age",
               "save_last", "log_val", "rename_best", "rename_last",
               "rename_best_age", "done", "aborted"}
    /\ raised \in {"none", "OSError", "FileNotFoundError"}
    /\ epoch \in 0..epochs
    /\ idx \in 0..LenTrainLoader
    /\ vidx \in 0..LenValLoader
    /\ config_writes \in 0..1
    /\ sched_age \in 0..epochs
    /\ sched_mask_gender \in 0..epochs
    /\ params_age \in 0..(epochs * LenTrainLoader)
    /\ params_mask_gender \in 0..(epochs * LenTrainLoader)
    /\ matches \in 0..(batch_size * log_interval)
    /\ best_val_loss.k \in {"num", "inf"}
    /\ val_loss.k \in {"num", "nan", "inf"}
    /\ rule_pc \in {"idle", "decoded", "mapped", "train_decided", "decided"}
====
